---- MODULE Spec2Model ----
(***************************************************************************)
(* Model of the image build of citrascope-pi: build_image.py (expand,      *)
(* customize_image, run_step) on top of scripts/mount_img.py               *)
(* (ImageMounter and the mount_img command line).                          *)
(*                                                                         *)
(* One process runs at a time.  Every action is one external command (or   *)
(* one step function) together with the code around it; the host's mount   *)
(* table and device-mapper nodes are part of the state.  The exit status   *)
(* of every external command is an input, drawn with \E.                   *)
(***************************************************************************)
EXTENDS Naturals, Sequences, FiniteSets

\* Most partitions the attach tool reports for an image (0 .. MaxParts).
MaxParts == 3

\* Most commands that exit non-zero inside the mount_context calls of one
\* build.
MaxContextFailures == 1

\* scripts/config.py: BOOT_MOUNT = /mnt/part1, ROOTFS_MOUNT = /mnt/part2
BOOT_MOUNT == "/mnt/part1"

ROOTFS_MOUNT == "/mnt/part2"

\* ImageMounter.__init__: self.mount_points = [BOOT_MOUNT, ROOTFS_MOUNT]
mount_points_swapped == <<ROOTFS_MOUNT, BOOT_MOUNT>>

mount_points == <<BOOT_MOUNT, ROOTFS_MOUNT>>

MountPoints == {BOOT_MOUNT, ROOTFS_MOUNT}

\* ImageMounter.cleanup: for mount_point in reversed(self.mount_points)
Reverse(s) == [i \in 1..Len(s) |-> s[Len(s) + 1 - i]]

CleanupOrder == Reverse(mount_points)

\* Names of BUILD_STEPS, in list order.
BUILD_STEPS ==
    << "Configure hostname/identity", "Add user", "Enable SSH",
       "Configure headless settings", "Update packages",
       "Configure GPS timing", "Install Citrascope",
       "Configure Comitup WiFi", "Enable WiFi hardware",
       "Configure login banner" >>

\* A step list the pipeline is run with when BUILD_STEPS is replaced by a
\* contiguous part of itself that ends with its last step (steps keep their
\* functions and their order).
StepLists ==
    { SubSeq(BUILD_STEPS, i, Len(BUILD_STEPS)) : i \in 1..Len(BUILD_STEPS) }

\* Python values a step function hands back, by the type run_step sees.
\* data is a dict, kept as a set of <<key, value>> pairs.
Versions == {"0.9.1"}

NoData == {}

PyBool(b) == [type |-> "bool", success |-> b, data |-> NoData]

PyNone == [type |-> "NoneType", success |-> FALSE, data |-> NoData]

\* scripts/build_result.py: the BuildResult class the step scripts import
ScriptsBuildResult(s, d) ==
    [type |-> "build_result.BuildResult", success |-> s, data |-> d]

Returns(v) == [kind |-> "return", value |-> v]

Raises == [kind |-> "raise", value |-> PyNone]

SysExits == [kind |-> "exit", value |-> PyNone]

BoolOutcomes == {Returns(PyBool(TRUE)), Returns(PyBool(FALSE))}

\* What each step's main can do when run_step calls it.
StepOutcomes(name) ==
    CASE name = "Configure hostname/identity" -> BoolOutcomes
      [] name = "Add user" -> BoolOutcomes
      [] name = "Enable SSH" -> BoolOutcomes \cup {Raises}
      [] name = "Configure headless settings" -> BoolOutcomes
      [] name = "Update packages" -> {Returns(PyNone), SysExits}
      [] name = "Configure GPS timing" -> BoolOutcomes
      [] name = "Install Citrascope" ->
            { Returns(ScriptsBuildResult(TRUE, {<<"version", v>>})) : v \in Versions }
            \cup { Returns(ScriptsBuildResult(TRUE, NoData)),
                   Returns(ScriptsBuildResult(FALSE, NoData)) }
      [] name = "Configure Comitup WiFi" -> BoolOutcomes
      [] name = "Enable WiFi hardware" -> BoolOutcomes \cup {Raises}
      [] name = "Configure login banner" -> {Returns(PyBool(TRUE)), Raises}

\* run_step: isinstance(result, BuildResult), BuildResult being the class
\* build_image.py defines itself.
IsInstanceBuildResult(v) == v.type = "build_image.BuildResult"

\* Python's bool(): a bool is itself, None is false, a plain object is true.
Truthy(v) ==
    CASE v.type = "bool" -> v.success
      [] v.type = "NoneType" -> FALSE
      [] OTHER -> TRUE

\* run_step's normalisation of a returned value to (success, data).
Normalise(v) ==
    IF IsInstanceBuildResult(v)
    THEN [success |-> v.success, data |-> v.data]
    ELSE [success |-> Truthy(v), data |-> NoData]

Keys(d) == { p[1] : p \in d }

Lookup(d, key) == CHOOSE x \in { p[2] : p \in { q \in d : q[1] = key } } : TRUE

StepResult(name, ok) == [name |-> name, success |-> ok]

Min(a, b) == IF a < b THEN a ELSE b

\* mount_context: mount_points, the list of (name, destination, mount
\* arguments, make_rslave); the destination is name under the root mount
\* point.
ctx_mount_points_rslave_first ==
    << [name |-> "sys", options |-> "--rbind", make_rslave |-> TRUE],
       [name |-> "proc", options |-> "-t proc", make_rslave |-> FALSE],
       [name |-> "dev", options |-> "--rbind", make_rslave |-> TRUE],
       [name |-> "run", options |-> "--rbind", make_rslave |-> TRUE] >>

ctx_mount_points ==
    << [name |-> "proc", options |-> "-t proc", make_rslave |-> FALSE],
       [name |-> "sys", options |-> "--rbind", make_rslave |-> TRUE],
       [name |-> "dev", options |-> "--rbind", make_rslave |-> TRUE],
       [name |-> "run", options |-> "--rbind", make_rslave |-> TRUE] >>

BindNames == { ctx_mount_points[i].name : i \in 1..Len(ctx_mount_points) }

\* The two builds of a host on which two builds run at once.
Builds == {1, 2}

\* Most method calls made on one ImageMounter instance.
MaxCalls == 4

\* Most applications of customization steps to one mounted tree.
MaxApplications == 2

\* Numbers the host can give the loop device of a new attachment (the
\* first free one; other users of the host hold the others).
LoopNumbers == {0, 1}

VARIABLES
    prog,           \* which command line runs: "build_image" or "mount_img"
    cleanup_mode,   \* mount_img --cleanup
    steps,          \* the step list run_step is called over
    pc,             \* position of the process
    nParts,         \* partitions of the image, as the attach tool reports them
    attached,       \* host: device-mapper nodes of the image exist
    mounted,        \* host: partition mounted at each mount point, 0 for none
    loop_devices,   \* ImageMounter.loop_devices
    setup_ok,       \* what setup_loop_devices returned: "unset", "true", "false"
    mount_ok,       \* what mount_partitions returned: "unset", "true", "false"
    mi,             \* mount_partitions: position in zip(loop_devices, mount_points)
    ui,             \* cleanup: position in reversed(mount_points)
    k,              \* customize_image: position in the step list
    BUILD_RESULTS,  \* the module's result list
    metadata,       \* customize_image's metadata dict
    pending,        \* exception the with block is unwinding: "none", "SystemExit", "KeyboardInterrupt"
    exit_status,    \* "running", or how the process ended: "0", "1", "SIGINT"
    renamed,        \* the output image was renamed to carry the Citrascope version
    issued,         \* history: commands the ImageMounter of this process has issued
    faults,         \* history: kinds of failure that happened in this process
    invoked,        \* history: names of the steps whose function run_step has called
    failed_at,      \* history: position of the step that failed, 0 for none
    last_call,      \* history: what the last step returned and what run_step made of it
    image,          \* root filesystem of the output image: what the steps have put there of the files the image test looks for
    cleanups,       \* history: calls of cleanup() completed on this host
    rf_ok,          \* resize_fs: what resize_filesystem returns: "unset", "true", "false"
    console,        \* history: what build_image.py has printed of its final report
    build_py,       \* build.py: "running", or the status it exits with
    bound,          \* host: mounts stacked at each of proc, sys, dev, run under the root mount point
    mounted_paths,  \* mount_context: destinations whose setup completed
    bi,             \* mount_context: position in its mount_points, then in reversed(mounted_paths)
    mc_err,         \* mount_context: exception passing through it: "none", "CalledProcessError"
    mc_round,       \* mount_context calls the running step has entered
    bind_log,       \* history: commands of the running mount_context call
    ctx_failures,   \* history: commands that failed inside mount_context calls
    ctx_warned,     \* history: destinations the running mount_context call printed an unmount warning for
    chroots,        \* history: steps that have invoked chroot, with whether proc, sys, dev, run were all bound then
    builds,         \* two builds on one host: each build's ImageMounter and position
    mtab,           \* two builds on one host: stack of mounts at each mount point
    dm,             \* two builds on one host: builds whose image is attached
    undone,         \* two builds on one host: history of umounts, with the owner of what was unmounted
    inst_devices,   \* one instance: ImageMounter.loop_devices, each <<loop number, partition>>
    inst_attach,    \* one instance, host: devices the image is attached as, <<>> for none
    inst_report,    \* one instance, history: devices the most recent kpartx -av reported
    inst_mounts,    \* one instance, host: stack of devices mounted at each mount point
    inst_calls,     \* one instance, history: method calls made
    inst_log,       \* one instance, history: mounts made, with what the most recent attach had reported
    tree_trace,     \* one mounted tree: the root filesystem before and after each step applied to it
    tree_log        \* one mounted tree, history: the steps applied, with whether each reported success

stepvars == << invoked, failed_at, last_call, image >>

mainvars == << console, build_py >>

chrootvars == << bound, mounted_paths, bi, mc_err, mc_round, bind_log,
                 ctx_failures, ctx_warned, chroots >>

twovars == << builds, mtab, dm, undone >>

apivars == << inst_devices, inst_attach, inst_report, inst_mounts, inst_calls,
             inst_log >>

treevars == << tree_trace, tree_log >>

\* the variables of the one process of Spec and SpecHarness
onevars == << prog, cleanup_mode, steps, pc, nParts, attached, mounted,
              loop_devices, setup_ok, mount_ok, mi, ui, k, BUILD_RESULTS,
              metadata, pending, exit_status, renamed, issued, faults,
              stepvars, cleanups, rf_ok, mainvars, chrootvars >>

vars == << onevars, twovars, apivars, treevars >>

NoneMounted == [mp \in MountPoints |-> 0]

Cmd(c, target, ok) == [cmd |-> c, target |-> target, ok |-> ok]

\* State shared by every start of a process on a host with nothing attached.
InitProcess ==
    /\ nParts \in 0..MaxParts
    /\ attached = FALSE
    /\ mounted = NoneMounted
    /\ loop_devices = <<>>
    /\ setup_ok = "unset"
    /\ mount_ok = "unset"
    /\ mi = 1
    /\ ui = 1
    /\ k = 1
    /\ BUILD_RESULTS = <<>>
    /\ metadata = NoData
    /\ pending = "none"
    /\ exit_status = "running"
    /\ renamed = FALSE
    /\ issued = <<>>
    /\ faults = {}
    /\ invoked = <<>>
    /\ failed_at = 0
    /\ last_call = [value |-> PyNone, norm |-> Normalise(PyNone)]
    /\ image = {}
    /\ cleanups = 0
    /\ rf_ok = "unset"
    /\ console = <<>>
    /\ build_py = "running"
    /\ bound = [n \in BindNames |-> 0]
    /\ mounted_paths = <<>>
    /\ bi = 1
    /\ mc_err = "none"
    /\ mc_round = 0
    /\ bind_log = <<>>
    /\ ctx_failures = 0
    /\ ctx_warned = {}
    /\ chroots = {}
    /\ inst_devices = <<>>
    /\ inst_attach = <<>>
    /\ inst_report = <<>>
    /\ inst_mounts = [mp \in MountPoints |-> <<>>]
    /\ inst_calls = 0
    /\ inst_log = <<>>
    /\ tree_log = <<>>

\* scripts/config.py: USERNAME, USER_UID, USER_GROUPS
USERNAME == "citra"

USER_UID == 1001

\* test.py: the line of etc/passwd that starts with the user's name and has
\* the UID as its third field
PasswdEntry(name, uid) == [file |-> "etc/passwd", name |-> name, uid |-> uid]

\* test.py: the file of a unit in etc/systemd/system
UnitFile(unit) == [file |-> "etc/systemd/system", name |-> unit, uid |-> 0]

\* test.py: the entry of a unit in multi-user.target.wants
WantsLink(unit) == [file |-> "etc/systemd/system/multi-user.target.wants", name |-> unit, uid |-> 0]

USER_GROUPS == {"sudo", "video", "plugdev", "netdev", "gpio", "i2c", "spi"}

\* The root filesystem of a Raspberry Pi OS image, as far as the steps read
\* and write it.  passwd, shadow, group and .bashrc are lists of lines.
BaseTree(sudoers, has_resolv, has_home) ==
    [ passwd |-> << [name |-> "root", uid |-> 0], [name |-> "pi", uid |-> 1000] >>,
      shadow |-> << "root", "pi" >>,
      group |-> << [name |-> "root", members |-> <<>>],
                   [name |-> "sudo", members |-> sudoers],
                   [name |-> "video", members |-> <<>>],
                   [name |-> "pi", members |-> <<>>] >>,
      home |-> has_home,
      bashrc |-> IF has_home THEN << "skel" >> ELSE <<>>,
      hostname |-> "raspberrypi",
      hosts |-> "raspberrypi",
      files |-> {},
      wants |-> {},
      resolv |-> IF has_resolv THEN "image" ELSE "absent",
      resolv_bak |-> "absent" ]

BaseTrees ==
    { BaseTree(s, r, h) : s \in {<<>>, <<"pi">>}, r \in BOOLEAN, h \in BOOLEAN }

\* No tree under study: the image as downloaded.
InitNoTree == tree_trace = << BaseTree(<<>>, TRUE, FALSE) >>

\* No second build on the host.
NoBuild == [pc |-> "idle", loop_devices |-> <<>>, mi |-> 1, ui |-> 1]

InitAlone ==
    /\ InitNoTree
    /\ builds = [b \in Builds |-> NoBuild]
    /\ mtab = [mp \in MountPoints |-> <<>>]
    /\ dm = {}
    /\ undone = <<>>

\* build_image.py main, from its try block on.
InitBuild ==
    /\ prog = "build_image"
    /\ cleanup_mode = FALSE
    /\ pc = "main"

\* mount_img.py main, with or without --cleanup.
InitMountImg ==
    /\ prog = "mount_img"
    /\ cleanup_mode \in BOOLEAN
    /\ pc = IF cleanup_mode THEN "cleanup_umount" ELSE "setup_loop_devices"

\* resize_fs.py main: resize_filesystem(image_path)
InitResizeFs ==
    /\ prog = "resize_fs"
    /\ cleanup_mode = FALSE
    /\ pc = "rf_setup"

Init ==
    /\ InitProcess
    /\ InitAlone
    /\ steps = BUILD_STEPS
    /\ InitBuild \/ InitMountImg \/ InitResizeFs

\* The build with BUILD_STEPS replaced by a contiguous part of itself.
InitHarness ==
    /\ InitProcess
    /\ InitAlone
    /\ steps \in StepLists
    /\ InitBuild

------------------------------------------------------------------------------
\* build_image.py: print_build_summary and main's handlers

\* print_build_summary: nothing is printed for an empty BUILD_RESULTS,
\* otherwise one table with a row for every entry, in list order
SummaryTwice(out, results) ==
    out \o << [what |-> "BUILD SUMMARY", rows |-> results],
              [what |-> "BUILD SUMMARY", rows |-> results] >>

print_build_summary(out, results) ==
    IF results = <<>> THEN out
    ELSE Append(out, [what |-> "BUILD SUMMARY", rows |-> results])

BuildComplete == [what |-> "BUILD COMPLETE", rows |-> <<>>]

\* What the process prints at its end, by the way the try block of main is
\* left: build_complete_image returned (BUILD COMPLETE and the summary,
\* lines 354-363), SystemExit (lines 406-409), another Exception (lines
\* 410-416); a KeyboardInterrupt passes main and nothing is printed.
ConsoleAtEnd(out, exc, results) ==
    CASE exc = "none" -> print_build_summary(Append(out, BuildComplete), results)
      [] exc \in {"SystemExit", "Exception"} -> print_build_summary(out, results)
      [] OTHER -> out

\* The exit status main's handlers leave: 0 after a return, 1 after
\* SystemExit(1) raised again and after sys.exit(1) of the Exception handler
ExitStatusAtEnd(exc) ==
    CASE exc = "none" -> "0"
      [] exc \in {"SystemExit", "Exception"} -> "1"
      [] exc = "KeyboardInterrupt" -> "SIGINT"

\* main (lines 388-404) and build_complete_image before the expand phase
\* (lines 262-290): the root check and the download can call sys.exit(1); copying the base
\* image and extending the file can raise OSError.
MainStart ==
    /\ pc = "main"
    /\ prog = "build_image"
    /\ \E exc \in {"none", "SystemExit", "Exception"} :
         IF exc = "none"
         THEN /\ pc' = "expand_parted"
              /\ UNCHANGED << exit_status, console, pending, faults >>
         ELSE /\ pc' = "exited"
              /\ pending' = exc
              /\ exit_status' = ExitStatusAtEnd(exc)
              /\ console' = ConsoleAtEnd(console, exc, BUILD_RESULTS)
              /\ faults' = faults \cup {"main"}
    /\ UNCHANGED << prog, cleanup_mode, steps, nParts, attached, mounted,
                    loop_devices, setup_ok, mount_ok, mi, ui, k, BUILD_RESULTS,
                    metadata, renamed, issued, stepvars, cleanups, rf_ok,
                    build_py, chrootvars, twovars, apivars, treevars >>

------------------------------------------------------------------------------
\* build_complete_image, expand phase (lines 293-331)

\* The end of the expand phase, by its return or by its except clause:
\* the Expand image result is recorded and customize_image is called.
ExpandDoneFatal(ok) ==
    /\ BUILD_RESULTS' = Append(BUILD_RESULTS, StepResult("Expand image", ok))
    /\ faults' = IF ok THEN faults ELSE faults \cup {"expand"}
    /\ pc' = IF ok THEN "setup_loop_devices" ELSE "exited"

ExpandDone(ok) ==
    /\ BUILD_RESULTS' = Append(BUILD_RESULTS, StepResult("Expand image", ok))
    /\ faults' = IF ok THEN faults ELSE faults \cup {"expand"}
    /\ pc' = "setup_loop_devices"

\* parted resizepart, check=True
ExpandParted ==
    /\ pc = "expand_parted"
    /\ \E ok \in BOOLEAN :
         IF ok
         THEN pc' = "expand_kpartx" /\ UNCHANGED << BUILD_RESULTS, faults >>
         ELSE ExpandDone(FALSE)
    /\ UNCHANGED stepvars
    /\ UNCHANGED << cleanups, rf_ok, mainvars, chrootvars, twovars, apivars, treevars >>
    /\ UNCHANGED << prog, cleanup_mode, steps, nParts, attached, mounted,
                    loop_devices, setup_ok, mount_ok, mi, ui, k, metadata,
                    pending, exit_status, renamed, issued >>

\* kpartx -av, check=True; with fewer than 2 devices the phase ends as a
\* success without a resize and without a detach.
ExpandKpartx ==
    /\ pc = "expand_kpartx"
    /\ \E ok \in BOOLEAN :
         IF ok
         THEN /\ attached' = TRUE
              /\ IF nParts >= 2
                 THEN pc' = "expand_e2fsck" /\ UNCHANGED << BUILD_RESULTS, faults >>
                 ELSE ExpandDone(TRUE)
         ELSE attached' = attached /\ ExpandDone(FALSE)
    /\ UNCHANGED stepvars
    /\ UNCHANGED << cleanups, rf_ok, mainvars, chrootvars, twovars, apivars, treevars >>
    /\ UNCHANGED << prog, cleanup_mode, steps, nParts, mounted, loop_devices,
                    setup_ok, mount_ok, mi, ui, k, metadata, pending,
                    exit_status, renamed, issued >>

\* e2fsck -f -y, exit status not looked at
ExpandE2fsck ==
    /\ pc = "expand_e2fsck"
    /\ \E ok \in BOOLEAN :
         faults' = IF ok THEN faults ELSE faults \cup {"e2fsck"}
    /\ pc' = "expand_resize2fs"
    /\ UNCHANGED stepvars
    /\ UNCHANGED << cleanups, rf_ok, mainvars, chrootvars, twovars, apivars, treevars >>
    /\ UNCHANGED << prog, cleanup_mode, steps, nParts, attached, mounted,
                    loop_devices, setup_ok, mount_ok, mi, ui, k, BUILD_RESULTS,
                    metadata, pending, exit_status, renamed, issued >>

\* resize2fs, check=True: a failure leaves the phase before kpartx -d
ExpandResize2fs ==
    /\ pc = "expand_resize2fs"
    /\ \E ok \in BOOLEAN :
         IF ok
         THEN pc' = "expand_detach" /\ UNCHANGED << BUILD_RESULTS, faults >>
         ELSE ExpandDone(FALSE)
    /\ UNCHANGED stepvars
    /\ UNCHANGED << cleanups, rf_ok, mainvars, chrootvars, twovars, apivars, treevars >>
    /\ UNCHANGED << prog, cleanup_mode, steps, nParts, attached, mounted,
                    loop_devices, setup_ok, mount_ok, mi, ui, k, metadata,
                    pending, exit_status, renamed, issued >>

\* kpartx -d, exit status not looked at
ExpandDetach ==
    /\ pc = "expand_detach"
    /\ \E ok \in BOOLEAN :
         /\ attached' = IF ok THEN FALSE ELSE attached
         /\ BUILD_RESULTS' = Append(BUILD_RESULTS, StepResult("Expand image", TRUE))
         /\ faults' = IF ok THEN faults ELSE faults \cup {"expand_detach"}
    /\ pc' = "setup_loop_devices"
    /\ UNCHANGED stepvars
    /\ UNCHANGED << cleanups, rf_ok, mainvars, chrootvars, twovars, apivars, treevars >>
    /\ UNCHANGED << prog, cleanup_mode, steps, nParts, mounted, loop_devices,
                    setup_ok, mount_ok, mi, ui, k, metadata, pending,
                    exit_status, renamed, issued >>

------------------------------------------------------------------------------
\* scripts/mount_img.py, class ImageMounter

\* zip(self.loop_devices, self.mount_points) stops at the shorter list
ZipLen == Min(Len(loop_devices), Len(mount_points))

BoolStr(b) == IF b THEN "true" ELSE "false"

\* Where control goes when setup_loop_devices has returned r:
\* __enter__ does not look at r, mount_img's main exits on False.
AfterSetupPc(r) ==
    IF prog = "mount_img" /\ ~r THEN "exited" ELSE "makedirs"

\* Where control goes when mount_partitions has returned r:
\* __enter__ does not look at r and the with body starts; mount_img's main
\* calls cleanup on False and is done on True.
AfterMountPc(r) ==
    IF prog = "build_image" THEN "run_step"
    ELSE IF r THEN "exited" ELSE "cleanup_umount"

\* setup_loop_devices: kpartx -av, one loop device appended per "add map" line
SetupLoopDevices ==
    /\ pc = "setup_loop_devices"
    /\ \E ok \in BOOLEAN :
         LET devs == IF ok THEN loop_devices \o [i \in 1..nParts |-> i]
                     ELSE loop_devices
             r == ok /\ Len(devs) >= 2
         IN /\ attached' = (attached \/ ok)
            /\ loop_devices' = devs
            /\ setup_ok' = BoolStr(r)
            /\ issued' = Append(issued, Cmd("kpartx -av", "image", ok))
            /\ faults' = IF ok THEN faults ELSE faults \cup {"attach"}
            /\ pc' = AfterSetupPc(r)
            /\ exit_status' = IF AfterSetupPc(r) = "exited" THEN "1" ELSE exit_status
    /\ mi' = 1
    /\ UNCHANGED stepvars
    /\ UNCHANGED << cleanups, rf_ok, mainvars, chrootvars, twovars, apivars, treevars >>
    /\ UNCHANGED << prog, cleanup_mode, steps, nParts, mounted, mount_ok, ui, k,
                    BUILD_RESULTS, metadata, pending, renamed >>

MountReturns(r) ==
    /\ mount_ok' = BoolStr(r)
    /\ pc' = AfterMountPc(r)
    /\ exit_status' = IF AfterMountPc(r) = "exited" THEN "0" ELSE exit_status

\* mount_partitions: os.makedirs of both mount points; any exception is
\* caught and mount_partitions returns False.
MakeMountPoints ==
    /\ pc = "makedirs"
    /\ \E ok \in BOOLEAN :
         IF ok
         THEN pc' = "mount_partitions" /\ UNCHANGED << mount_ok, exit_status, faults >>
         ELSE MountReturns(FALSE) /\ faults' = faults \cup {"makedirs"}
    /\ mi' = 1
    /\ ui' = 1
    /\ k' = 1
    /\ UNCHANGED stepvars
    /\ UNCHANGED << cleanups, rf_ok, mainvars, chrootvars, twovars, apivars, treevars >>
    /\ UNCHANGED << prog, cleanup_mode, steps, nParts, attached, mounted,
                    loop_devices, setup_ok, BUILD_RESULTS, metadata, pending,
                    renamed, issued >>

\* mount_partitions: one pass of the for loop (one mount command), or the
\* return True that follows the loop; a failing mount returns False at once.
MountPartitions ==
    /\ pc = "mount_partitions"
    /\ IF mi > ZipLen
       THEN /\ MountReturns(TRUE)
            /\ UNCHANGED << mounted, mi, issued, faults >>
       ELSE \E ok \in BOOLEAN :
            /\ issued' = Append(issued, Cmd("mount", mount_points[mi], ok))
            /\ IF ok
               THEN /\ mounted' = [mounted EXCEPT ![mount_points[mi]] = loop_devices[mi]]
                    /\ mi' = mi + 1
                    /\ UNCHANGED << mount_ok, pc, exit_status, faults >>
               ELSE /\ MountReturns(FALSE)
                    /\ faults' = faults \cup {"mount"}
                    /\ UNCHANGED << mounted, mi >>
    /\ ui' = 1
    /\ k' = 1
    /\ UNCHANGED stepvars
    /\ UNCHANGED << cleanups, rf_ok, mainvars, chrootvars, twovars, apivars, treevars >>
    /\ UNCHANGED << prog, cleanup_mode, steps, nParts, attached, loop_devices,
                    setup_ok, BUILD_RESULTS, metadata, pending, renamed >>

\* os.path.ismount(mount_point)
IsMountAlways(mp) == TRUE

IsMount(mp) == mounted[mp] # 0

AnyMounted == \E mp \in MountPoints : IsMount(mp)

\* cleanup: one pass of the loop over reversed(self.mount_points); a failing
\* umount is printed and the loop goes on.  umount is not recursive: with a
\* mount left under the root mount point the kernel refuses to unmount it.
CleanupUmount ==
    /\ pc = "cleanup_umount"
    /\ LET mp == CleanupOrder[ui]
       IN IF IsMount(mp)
          THEN \E ok \in BOOLEAN :
               /\ ok => ~(mp = ROOTFS_MOUNT /\ \E n \in BindNames : bound[n] > 0)
               /\ issued' = Append(issued, Cmd("umount", mp, ok))
               /\ mounted' = IF ok THEN [mounted EXCEPT ![mp] = 0] ELSE mounted
               /\ faults' = IF ok THEN faults ELSE faults \cup {"umount"}
          ELSE UNCHANGED << issued, mounted, faults >>
    /\ IF ui < Len(CleanupOrder)
       THEN ui' = ui + 1 /\ pc' = pc
       ELSE ui' = ui /\ pc' = "cleanup_detach"
    /\ UNCHANGED stepvars
    /\ UNCHANGED << cleanups, rf_ok, mainvars, chrootvars, twovars, apivars, treevars >>
    /\ UNCHANGED << prog, cleanup_mode, steps, nParts, attached, loop_devices,
                    setup_ok, mount_ok, mi, k, BUILD_RESULTS, metadata, pending,
                    exit_status, renamed >>

\* cleanup: kpartx -d, whatever the umounts did; its exit status only picks
\* the message.  The device-mapper nodes of a mounted partition are busy, so
\* the command can only succeed with nothing mounted.
CleanupDetach ==
    /\ pc = "cleanup_detach"
    /\ \E ok \in BOOLEAN :
         /\ ok => ~AnyMounted
         /\ issued' = Append(issued, Cmd("kpartx -d", "image", ok))
         /\ attached' = IF ok THEN FALSE ELSE attached
         /\ faults' = IF ok THEN faults ELSE faults \cup {"detach"}
    /\ cleanups' = cleanups + 1
    /\ pc' = "after_cleanup"
    /\ UNCHANGED stepvars
    /\ UNCHANGED << rf_ok, mainvars, chrootvars, twovars, apivars, treevars >>
    /\ UNCHANGED << prog, cleanup_mode, steps, nParts, mounted, loop_devices,
                    setup_ok, mount_ok, mi, ui, k, BUILD_RESULTS, metadata,
                    pending, exit_status, renamed >>

\* mount_img main after mounter.cleanup(): sys.exit(0) in cleanup mode,
\* sys.exit(1) after a failed mount or an interrupt.
MountImgFinish ==
    /\ pc = "after_cleanup"
    /\ prog = "mount_img"
    /\ pc' = "exited"
    /\ exit_status' = IF cleanup_mode THEN "0" ELSE "1"
    /\ UNCHANGED stepvars
    /\ UNCHANGED << cleanups, rf_ok, mainvars, chrootvars, twovars, apivars, treevars >>
    /\ UNCHANGED << prog, cleanup_mode, steps, nParts, attached, mounted,
                    loop_devices, setup_ok, mount_ok, mi, ui, k, BUILD_RESULTS,
                    metadata, pending, renamed, issued, faults >>

\* The operator follows mount_img's advice and runs it again with --cleanup
\* on the host as the first run left it: a new process, a new ImageMounter.
MountImgCleanupRun ==
    /\ pc = "exited"
    /\ prog = "mount_img"
    /\ ~cleanup_mode
    /\ cleanup_mode' = TRUE
    /\ pc' = "cleanup_umount"
    /\ loop_devices' = <<>>
    /\ setup_ok' = "unset"
    /\ mount_ok' = "unset"
    /\ mi' = 1
    /\ ui' = 1
    /\ exit_status' = "running"
    /\ issued' = <<>>
    /\ faults' = {}
    /\ UNCHANGED stepvars
    /\ UNCHANGED << cleanups, rf_ok, mainvars, chrootvars, twovars, apivars, treevars >>
    /\ UNCHANGED << prog, steps, nParts, attached, mounted, k, BUILD_RESULTS,
                    metadata, pending, renamed >>

------------------------------------------------------------------------------
\* scripts/resize_fs.py: DeviceManager, loop_device_context, resize_filesystem

rfrest == << prog, cleanup_mode, steps, nParts, mounted, setup_ok, mount_ok,
             mi, ui, k, BUILD_RESULTS, metadata, renamed, stepvars, mainvars,
             chrootvars, twovars, apivars, treevars >>

\* A return or an exception inside loop_device_context's try: the finally
\* clause calls manager.cleanup() next.
RfRaisesPastCleanup(result, exc) ==
    /\ rf_ok' = result
    /\ pending' = exc
    /\ pc' = IF exc = "none" THEN "rf_cleanup" ELSE "exited"

RfFinally(result, exc) ==
    /\ rf_ok' = result
    /\ pending' = exc
    /\ pc' = "rf_cleanup"

\* loop_device_context: DeviceManager.setup_loop_devices (kpartx -av), and
\* RuntimeError when it returns False
RfSetup ==
    /\ pc = "rf_setup"
    /\ \E ok \in BOOLEAN :
         LET devs == IF ok THEN loop_devices \o [i \in 1..nParts |-> i]
                     ELSE loop_devices
             r == ok /\ Len(devs) >= 2
         IN /\ attached' = (attached \/ ok)
            /\ loop_devices' = devs
            /\ issued' = Append(issued, Cmd("kpartx -av", "image", ok))
            /\ faults' = IF ok THEN faults ELSE faults \cup {"attach"}
            /\ IF r
               THEN pc' = "rf_e2fsck" /\ UNCHANGED << rf_ok, pending >>
               ELSE RfFinally("unset", "RuntimeError")
    /\ UNCHANGED << exit_status, cleanups >>
    /\ UNCHANGED rfrest

\* resize_filesystem: e2fsck -f -p on the root partition, check=True;
\* CalledProcessError is caught and the function returns False
RfE2fsck ==
    /\ pc = "rf_e2fsck"
    /\ \E ok \in BOOLEAN :
         IF ok
         THEN pc' = "rf_resize2fs" /\ UNCHANGED << rf_ok, pending, faults >>
         ELSE RfFinally("false", "none") /\ faults' = faults \cup {"e2fsck"}
    /\ UNCHANGED << attached, loop_devices, issued, exit_status, cleanups >>
    /\ UNCHANGED rfrest

\* resize_filesystem: resize2fs, check=True; return False on error, True
\* after it
RfResize2fs ==
    /\ pc = "rf_resize2fs"
    /\ \E ok \in BOOLEAN :
         IF ok
         THEN RfFinally("true", "none") /\ UNCHANGED faults
         ELSE RfFinally("false", "none") /\ faults' = faults \cup {"resize2fs"}
    /\ UNCHANGED << attached, loop_devices, issued, exit_status, cleanups >>
    /\ UNCHANGED rfrest

\* DeviceManager.cleanup: kpartx -d, check=True, CalledProcessError caught
\* and printed.  Then main: sys.exit(0 if success else 1); a RuntimeError
\* is caught nowhere and ends the process with status 1.
RfCleanup ==
    /\ pc = "rf_cleanup"
    /\ \E ok \in BOOLEAN :
         /\ issued' = Append(issued, Cmd("kpartx -d", "image", ok))
         /\ attached' = IF ok THEN FALSE ELSE attached
         /\ faults' = IF ok THEN faults ELSE faults \cup {"detach"}
    /\ cleanups' = cleanups + 1
    /\ pc' = "exited"
    /\ exit_status' = IF rf_ok = "true" /\ pending = "none" THEN "0" ELSE "1"
    /\ UNCHANGED << loop_devices, rf_ok, pending >>
    /\ UNCHANGED rfrest

------------------------------------------------------------------------------
\* scripts/update_upgrade_chroot.py and scripts/install_citrascope.py:
\* mount_context, the same function in both files

\* Calls of mount_context a step makes: update_system has one with block,
\* install_citrascope has two, one after the other.
MountContextCalls(name) ==
    CASE name = "Update packages" -> 1
      [] name = "Install Citrascope" -> 2
      [] OTHER -> 0

\* subprocess.run(['chroot', rootfs_path, ...]) by the step being run
ChrootInvoked == chroots \cup {[step |-> steps[k], binds |-> \A n \in BindNames : bound[n] > 0]}

ctxrest == << prog, cleanup_mode, steps, nParts, attached, mounted,
              loop_devices, setup_ok, mount_ok, mi, ui, k, BUILD_RESULTS,
              metadata, pending, exit_status, renamed, issued, stepvars,
              cleanups, rf_ok, mainvars, twovars, apivars, treevars >>

\* A call of mount_context starts: mounted_paths = []
EnterContext ==
    /\ mc_round' = mc_round + 1
    /\ mounted_paths' = <<>>
    /\ mc_err' = "none"
    /\ bi' = 1
    /\ bind_log' = <<>>
    /\ ctx_warned' = {}
    /\ pc' = "mc_mount"

\* The step being run comes to its first with mount_context(...).
StepEntersContext ==
    /\ prog = "build_image"
    /\ pc = "run_step"
    /\ mc_round = 0
    /\ MountContextCalls(steps[k]) > 0
    /\ EnterContext
    /\ UNCHANGED << bound, faults, ctx_failures, chroots >>
    /\ UNCHANGED ctxrest

\* mounted_paths.append(dest), the last line of the loop body, and the
\* next pass of the loop or the yield
SetupCompleted(name) ==
    /\ mounted_paths' = Append(mounted_paths, name)
    /\ IF bi < Len(ctx_mount_points)
       THEN bi' = bi + 1 /\ pc' = "mc_mount"
       ELSE bi' = bi /\ pc' = "mc_body"

\* The exit status of a command inside mount_context, counted when it is
\* not 0.
ContextCommand(ok) ==
    /\ ok \/ ctx_failures < MaxContextFailures
    /\ ctx_failures' = IF ok THEN ctx_failures ELSE ctx_failures + 1

\* An exception inside the try block: the finally clause runs next, over
\* reversed(mounted_paths).
ToFinally(exc) ==
    /\ mc_err' = exc
    /\ bi' = 1
    /\ pc' = "mc_umount"

\* mount <options> <dest>, check=True
McMount ==
    /\ pc = "mc_mount"
    /\ LET mp == ctx_mount_points[bi]
       IN \E ok \in BOOLEAN :
          /\ ContextCommand(ok)
          /\ bind_log' = Append(bind_log, Cmd("mount " \o mp.options, mp.name, ok))
          /\ IF ok
             THEN /\ bound' = [bound EXCEPT ![mp.name] = @ + 1]
                  /\ UNCHANGED << mc_err, faults >>
                  /\ IF mp.make_rslave
                     THEN pc' = "mc_rslave" /\ UNCHANGED << mounted_paths, bi >>
                     ELSE SetupCompleted(mp.name)
             ELSE /\ ToFinally("CalledProcessError")
                  /\ faults' = faults \cup {"bind"}
                  /\ UNCHANGED << bound, mounted_paths >>
    /\ UNCHANGED << mc_round, ctx_warned, chroots >>
    /\ UNCHANGED ctxrest

\* mount --make-rslave <dest>, check=True
McRslave ==
    /\ pc = "mc_rslave"
    /\ LET mp == ctx_mount_points[bi]
       IN \E ok \in BOOLEAN :
          /\ ContextCommand(ok)
          /\ bind_log' = Append(bind_log, Cmd("mount --make-rslave", mp.name, ok))
          /\ IF ok
             THEN SetupCompleted(mp.name) /\ UNCHANGED << mc_err, faults >>
             ELSE /\ ToFinally("CalledProcessError")
                  /\ faults' = faults \cup {"rslave"}
                  /\ UNCHANGED mounted_paths
    /\ UNCHANGED << bound, mc_round, ctx_warned, chroots >>
    /\ UNCHANGED ctxrest

\* The with body: the chroot commands of the step, every one with
\* check=True; the first that fails raises.
McBody ==
    /\ pc = "mc_body"
    /\ \E ok \in BOOLEAN :
         /\ ContextCommand(ok)
         /\ bind_log' = Append(bind_log, Cmd("chroot", ROOTFS_MOUNT, ok))
         /\ ToFinally(IF ok THEN "none" ELSE "CalledProcessError")
         /\ faults' = IF ok THEN faults ELSE faults \cup {"chroot"}
    /\ chroots' = ChrootInvoked
    /\ UNCHANGED << bound, mounted_paths, mc_round, ctx_warned >>
    /\ UNCHANGED ctxrest

\* finally: the position in reversed(mounted_paths) after an umount -R; its
\* CalledProcessError is caught inside the loop body, so the loop goes on.
AfterUnbind(ok) == bi + 1

\* except CalledProcessError: update_upgrade_chroot.py prints "Warning:
\* Failed to unmount", install_citrascope.py has pass.
WarnsOnUnbindFailure(name) == name = "Update packages"

\* finally: one pass of the loop over reversed(mounted_paths), umount -R
\* with check=True and CalledProcessError caught; after the loop the with
\* block is left, for the step's next with block when nothing is raised
\* and it has one, else for the end of the step's main.
McUmount ==
    /\ pc = "mc_umount"
    /\ IF bi > Len(mounted_paths)
       THEN /\ IF mc_err = "none" /\ mc_round < MountContextCalls(steps[k])
               THEN EnterContext
               ELSE /\ pc' = "run_step"
                    /\ UNCHANGED << mounted_paths, bi, mc_err, mc_round, bind_log,
                                    ctx_warned >>
            /\ UNCHANGED << bound, faults, ctx_failures >>
       ELSE LET path == Reverse(mounted_paths)[bi]
            IN \E ok \in BOOLEAN :
               /\ ContextCommand(ok)
               /\ bind_log' = Append(bind_log, Cmd("umount -R", path, ok))
               /\ bound' = IF ok THEN [bound EXCEPT ![path] = @ - 1] ELSE bound
               /\ faults' = IF ok THEN faults ELSE faults \cup {"unbind"}
               /\ bi' = AfterUnbind(ok)
               /\ ctx_warned' = IF ~ok /\ WarnsOnUnbindFailure(steps[k])
                                THEN ctx_warned \cup {path} ELSE ctx_warned
               /\ UNCHANGED << pc, mounted_paths, mc_err, mc_round >>
    /\ UNCHANGED chroots
    /\ UNCHANGED ctxrest

\* How the main of a step with mount_context can end: before its first
\* with block and after an exception in one only by its failure exits;
\* after its last with block as main ends when nothing was raised.
FailureOutcomes(name) ==
    { o \in StepOutcomes(name) :
        o.kind # "return" \/ (o.value.type # "NoneType" /\ ~o.value.success) }

OutcomesNow(name) ==
    IF MountContextCalls(name) = 0 THEN StepOutcomes(name)
    ELSE IF mc_round = 0 \/ mc_err # "none" THEN FailureOutcomes(name)
    ELSE IF name = "Update packages" THEN {Returns(PyNone)}
    ELSE StepOutcomes(name)

------------------------------------------------------------------------------
\* build_image.py: run_step and customize_image

\* run_step, a step that returned: the result appended to BUILD_RESULTS
\* (lines 175-181)
ResultsAfterReturn(results, name, success) ==
    Append(results, StepResult(name, success))

\* run_step, except Exception: a failed result is appended (lines 190-193)
ResultsAfterRaise(results, name) == Append(results, StepResult(name, FALSE))

\* run_step, a step that raised SystemExit itself: SystemExit is no
\* Exception, the except clause is passed by and nothing is appended
ResultsAfterSysExit(results, name) == results

\* run_step: sys.exit(1) unless the step succeeded (lines 175-178)
StepGoesOnAlways(success) == TRUE

StepGoesOn(success) == success

\* customize_image: the version is taken from the Install Citrascope data
\* (lines 250-253)
MetadataAfter(md, name, data) ==
    IF name = "Install Citrascope" /\ "version" \in Keys(data)
    THEN md \cup {<<"citrascope_version", Lookup(data, "version")>>}
    ELSE md

\* ImageMounter.__exit__: cleanup() on every way out of the with body
WithExitPcNoCleanup == "after_cleanup"

WithExitPc == "cleanup_umount"

\* The with body is left with exception e ("none" after the last step).
LeaveWith(e) ==
    /\ pending' = e
    /\ pc' = WithExitPc
    /\ ui' = 1

\* Steps whose main invokes chroot outside any mount_context:
\* configure_headless (configure_locale, configure_keyboard).  A run that
\* returns True has made these calls; one that returns False may have
\* made them (locale-gen failing) or not (locale.gen unreadable).
ChrootsOutsideContext(name) == name = "Configure headless settings"

\* The value a step's main returned says the step failed: False, or a
\* result object with success=False.
ReportsFailure(v) == v.type # "NoneType" /\ ~v.success

\* What a step that ran to the end of its main has put under the root mount
\* point, of the files test.py looks for: add_user_to_passwd, the link of
\* enable_ssh_service, create_systemd_service, enable_comitup_service.
StepWrites(name) ==
    CASE name = "Add user" -> {PasswdEntry(USERNAME, USER_UID)}
      [] name = "Enable SSH" -> {WantsLink("ssh.service")}
      [] name = "Install Citrascope" ->
            {UnitFile("citrascope.service"), WantsLink("citrascope.service")}
      [] name = "Configure Comitup WiFi" -> {WantsLink("comitup.service")}
      [] OTHER -> {}

\* What a step that failed or was interrupted can have put there before:
\* add_user fails after add_user_to_passwd, install_citrascope.main fails
\* before, inside or after create_systemd_service, configure_comitup.main
\* fails after enable_comitup_service; enable_ssh_service makes the link as
\* its last act.
MayLeave(name) ==
    CASE name = "Add user" -> {{}, StepWrites(name)}
      [] name = "Install Citrascope" ->
            {{}, {UnitFile("citrascope.service")}, StepWrites(name)}
      [] name = "Configure Comitup WiFi" -> {{}, StepWrites(name)}
      [] OTHER -> {{}}

\* What a call of a step's main that ended as o can have written.
Written(name, o) ==
    IF o.kind = "return" /\ ~ReportsFailure(o.value) /\ o.value.type # "NoneType"
    THEN {StepWrites(name)}
    ELSE MayLeave(name)

\* The steps write under ROOTFS_MOUNT: it is the image's root filesystem
\* that gets the files when its second partition is mounted there.
ImageAfter(files, written) ==
    IF mounted[ROOTFS_MOUNT] = 2 THEN files \cup written ELSE files

\* customize_image: one pass of the for loop, that is one call of run_step.
RunStep ==
    /\ pc = "run_step"
    /\ \E o \in OutcomesNow(steps[k]), ran \in BOOLEAN :
         LET name == steps[k]
             n == Normalise(o.value)
         IN /\ invoked' = Append(invoked, name)
            /\ \E w \in Written(name, o) : image' = ImageAfter(image, w)
            /\ ran = (ChrootsOutsideContext(name) /\ (ran \/ Truthy(o.value)))
            /\ chroots' = IF ran THEN ChrootInvoked ELSE chroots
            /\ CASE o.kind = "return" ->
                 /\ BUILD_RESULTS' = ResultsAfterReturn(BUILD_RESULTS, name, n.success)
                 /\ last_call' = [value |-> o.value, norm |-> n]
                 /\ faults' = faults \cup (IF n.success THEN {} ELSE {"step_false"})
                                   \cup (IF ReportsFailure(o.value)
                                         THEN {"returned_failure"} ELSE {})
                 /\ failed_at' = IF n.success THEN failed_at ELSE k
                 /\ IF StepGoesOn(n.success)
                    THEN /\ metadata' = MetadataAfter(metadata, name, n.data)
                         /\ IF k < Len(steps)
                            THEN k' = k + 1 /\ UNCHANGED << pc, pending, ui >>
                            ELSE k' = k /\ LeaveWith("none")
                    ELSE /\ LeaveWith("SystemExit")
                         /\ UNCHANGED << metadata, k >>
              [] o.kind = "raise" ->
                 /\ BUILD_RESULTS' = ResultsAfterRaise(BUILD_RESULTS, name)
                 /\ faults' = faults \cup {"step_raise"}
                 /\ failed_at' = k
                 /\ LeaveWith("SystemExit")
                 /\ UNCHANGED << metadata, k, last_call >>
              [] o.kind = "exit" ->
                 /\ BUILD_RESULTS' = ResultsAfterSysExit(BUILD_RESULTS, name)
                 /\ faults' = faults \cup {"step_exit"}
                 /\ failed_at' = k
                 /\ LeaveWith("SystemExit")
                 /\ UNCHANGED << metadata, k, last_call >>
    /\ mc_round' = 0
    /\ mounted_paths' = <<>>
    /\ bi' = 1
    /\ mc_err' = "none"
    /\ bind_log' = <<>>
    /\ ctx_warned' = {}
    /\ UNCHANGED << cleanups, rf_ok, mainvars, bound, ctx_failures, twovars, apivars, treevars >>
    /\ UNCHANGED << prog, cleanup_mode, steps, nParts, attached, mounted,
                    loop_devices, setup_ok, mount_ok, mi, exit_status, renamed,
                    issued >>

\* ImageMounter.__exit__ returns False: the exception the with body was
\* left with goes on after cleanup()
AfterExitSuppressed(exc) == "none"

AfterExit(exc) == exc

\* build_complete_image, after customize_image returned its metadata: the
\* output file is renamed if a Citrascope version was captured (lines
\* 339-350); an exception out of customize_image passes these lines by
RenamesAlways(exc, md) == TRUE

Renames(exc, md) == exc = "none" /\ "citrascope_version" \in Keys(md)

\* What follows the with block: build_complete_image renames the image when a
\* version was captured and main returns (status 0); a SystemExit reaches
\* main's handler, which prints the summary and raises it again (status 1);
\* a KeyboardInterrupt is caught nowhere.
BuildFinish ==
    /\ pc = "after_cleanup"
    /\ prog = "build_image"
    /\ pc' = "exited"
    /\ exit_status' = ExitStatusAtEnd(AfterExit(pending))
    /\ renamed' = Renames(AfterExit(pending), metadata)
    /\ console' = ConsoleAtEnd(console, AfterExit(pending), BUILD_RESULTS)
    /\ UNCHANGED stepvars
    /\ UNCHANGED << cleanups, rf_ok, build_py, chrootvars, twovars, apivars, treevars >>
    /\ UNCHANGED << prog, cleanup_mode, steps, nParts, attached, mounted,
                    loop_devices, setup_ok, mount_ok, mi, ui, k, BUILD_RESULTS,
                    metadata, pending, issued, faults >>

\* build.py, run_build: the status of the container's command
\* "build_image.py ... && chown ..." is that of build_image.py when it is
\* not 0 (130 for a process ended by SIGINT), else that of chown.
ContainerStatus(status, chown_ok) ==
    CASE status = "0" -> IF chown_ok THEN "0" ELSE "1"
      [] status = "1" -> "1"
      [] status = "SIGINT" -> "130"

\* build.py, run_build: sys.exit(return_code) unless it is 0, and main
\* returns after run_build (status 0)
BuildPyStatus(return_code) == return_code

\* build.py: process.wait() and what follows it (lines 166-172)
RunBuildWait ==
    /\ prog = "build_image"
    /\ pc = "exited"
    /\ build_py = "running"
    /\ \E chown_ok \in BOOLEAN :
         build_py' = BuildPyStatus(ContainerStatus(exit_status, chown_ok))
    /\ UNCHANGED << prog, cleanup_mode, steps, pc, nParts, attached, mounted,
                    loop_devices, setup_ok, mount_ok, mi, ui, k, BUILD_RESULTS,
                    metadata, pending, exit_status, renamed, issued, faults,
                    stepvars, cleanups, rf_ok, console, chrootvars, twovars, apivars, treevars >>

------------------------------------------------------------------------------
\* KeyboardInterrupt

ExpandPcs == {"expand_parted", "expand_kpartx", "expand_e2fsck",
              "expand_resize2fs", "expand_detach"}

EnterPcs == {"setup_loop_devices", "makedirs", "mount_partitions"}

\* A KeyboardInterrupt is raised where the process stands, in place of the
\* command it was about to run.  In build_image.py nothing catches it in the
\* expand phase or in __enter__ (both handle Exception at most), and a with
\* statement whose __enter__ raised does not call __exit__; in the with body
\* it comes while the step runs, passes run_step and __exit__ runs.
\* mount_img's main catches it around setup and mount, calls cleanup and
\* exits 1.
Interrupt ==
    /\ exit_status = "running"
    /\ \/ /\ prog = "build_image"
          /\ pc \in ExpandPcs \cup EnterPcs
          /\ pc' = "exited"
          /\ exit_status' = "SIGINT"
          /\ UNCHANGED << pending, ui, stepvars >>
       \/ /\ prog = "build_image"
          /\ pc = "run_step"
          /\ LeaveWith("KeyboardInterrupt")
          /\ invoked' = Append(invoked, steps[k])
          /\ \E w \in MayLeave(steps[k]) : image' = ImageAfter(image, w)
          /\ UNCHANGED << exit_status, failed_at, last_call >>
       \/ /\ prog = "mount_img"
          /\ ~cleanup_mode
          /\ pc \in EnterPcs
          /\ pc' = "cleanup_umount"
          /\ ui' = 1
          /\ UNCHANGED << pending, exit_status, stepvars >>
    /\ faults' = faults \cup {"interrupt"}
    /\ UNCHANGED << cleanups, rf_ok, mainvars, chrootvars, twovars, apivars, treevars >>
    /\ UNCHANGED << prog, cleanup_mode, steps, nParts, attached, mounted,
                    loop_devices, setup_ok, mount_ok, mi, k, BUILD_RESULTS,
                    metadata, renamed, issued >>

------------------------------------------------------------------------------
\* Two builds at once on one host: customize_image of two processes, each
\* on its own image, over the one pair of mount points of scripts/config.py.
\* A mount on a mount point that is already mounted succeeds and covers the
\* earlier mount; umount removes the mount on top.

\* Both builds are about to enter "with ImageMounter(image_path)".
Entering == [pc |-> "setup_loop_devices", loop_devices |-> <<>>, mi |-> 1, ui |-> 1]

InitTwoBuilds ==
    /\ InitProcess
    /\ steps = BUILD_STEPS
    /\ InitBuild
    /\ builds = [b \in Builds |-> Entering]
    /\ InitNoTree
    /\ mtab = [mp \in MountPoints |-> <<>>]
    /\ dm = {}
    /\ undone = <<>>

\* setup_loop_devices of build b; __enter__ goes on whatever it returns
TwoSetup(b) ==
    /\ builds[b].pc = "setup_loop_devices"
    /\ \E ok \in BOOLEAN :
         /\ builds' = [builds EXCEPT
                         ![b].loop_devices = IF ok THEN [i \in 1..nParts |-> i] ELSE <<>>,
                         ![b].pc = "mount_partitions"]
         /\ dm' = IF ok THEN dm \cup {b} ELSE dm
    /\ UNCHANGED << mtab, undone >>
    /\ UNCHANGED << onevars, apivars, treevars >>

\* mount_partitions of build b: one pass of its loop, or the end of the
\* loop; a failing mount ends it; the with body starts in every case
TwoMount(b) ==
    /\ builds[b].pc = "mount_partitions"
    /\ LET me == builds[b]
       IN IF me.mi > Min(Len(me.loop_devices), Len(mount_points))
          THEN /\ builds' = [builds EXCEPT ![b].pc = "run_step"]
               /\ UNCHANGED mtab
          ELSE \E ok \in BOOLEAN :
               IF ok
               THEN /\ mtab' = [mtab EXCEPT ![mount_points[me.mi]] =
                                   Append(@, [by |-> b, part |-> me.loop_devices[me.mi]])]
                    /\ builds' = [builds EXCEPT ![b].mi = @ + 1]
               ELSE /\ builds' = [builds EXCEPT ![b].pc = "run_step"]
                    /\ UNCHANGED mtab
    /\ UNCHANGED << dm, undone >>
    /\ UNCHANGED << onevars, apivars, treevars >>

\* the with body of build b: the steps, however they end, then __exit__
TwoSteps(b) ==
    /\ builds[b].pc = "run_step"
    /\ builds' = [builds EXCEPT ![b].pc = "cleanup_umount", ![b].ui = 1]
    /\ UNCHANGED << mtab, dm, undone >>
    /\ UNCHANGED << onevars, apivars, treevars >>

\* cleanup of build b: one pass of the loop over reversed(mount_points);
\* os.path.ismount is true for a mount point with any mount on it
TwoUmount(b) ==
    /\ builds[b].pc = "cleanup_umount"
    /\ LET mp == CleanupOrder[builds[b].ui]
           n == Len(mtab[mp])
       IN IF n > 0
          THEN \E ok \in BOOLEAN :
               IF ok
               THEN /\ mtab' = [mtab EXCEPT ![mp] = SubSeq(@, 1, n - 1)]
                    /\ undone' = Append(undone, [by |-> b, owner |-> mtab[mp][n].by,
                                                 mount_point |-> mp])
               ELSE UNCHANGED << mtab, undone >>
          ELSE UNCHANGED << mtab, undone >>
    /\ builds' = IF builds[b].ui < Len(CleanupOrder)
                 THEN [builds EXCEPT ![b].ui = @ + 1]
                 ELSE [builds EXCEPT ![b].pc = "cleanup_detach"]
    /\ UNCHANGED dm
    /\ UNCHANGED << onevars, apivars, treevars >>

\* the partitions of build b that are mounted somewhere
Holds(b) ==
    \E mp \in MountPoints : \E i \in 1..Len(mtab[mp]) : mtab[mp][i].by = b

\* cleanup of build b: kpartx -d, which can only succeed when none of the
\* image's partitions is mounted
TwoDetach(b) ==
    /\ builds[b].pc = "cleanup_detach"
    /\ \E ok \in BOOLEAN :
         /\ ok => ~Holds(b)
         /\ dm' = IF ok THEN dm \ {b} ELSE dm
    /\ builds' = [builds EXCEPT ![b].pc = "done"]
    /\ UNCHANGED << mtab, undone >>
    /\ UNCHANGED << onevars, apivars, treevars >>

TwoSetups == \E b \in Builds : TwoSetup(b)

TwoMounts == \E b \in Builds : TwoMount(b)

TwoBodies == \E b \in Builds : TwoSteps(b)

TwoUmounts == \E b \in Builds : TwoUmount(b)

TwoDetaches == \E b \in Builds : TwoDetach(b)

NextTwoBuilds ==
    \/ TwoSetups
    \/ TwoMounts
    \/ TwoBodies
    \/ TwoUmounts
    \/ TwoDetaches

------------------------------------------------------------------------------
\* One ImageMounter instance whose methods a caller calls in any order
\* (scripts/mount_img.py).  Every action is one whole method call.  A loop
\* device is named by its loop number and partition, as kpartx reports it
\* ("add map loop0p1 ..." is <<0, 1>>).

InitInstance ==
    /\ InitProcess
    /\ InitAlone
    /\ steps = BUILD_STEPS
    /\ prog = "instance"
    /\ cleanup_mode = FALSE
    /\ pc = "idle"

\* kpartx -av: the devices it reports, those of the attachment in place or
\* of a new one on loop device n
Reported(n) ==
    IF inst_attach # <<>> THEN inst_attach ELSE [i \in 1..nParts |-> <<n, i>>]

\* setup_loop_devices: the reported devices are appended to
\* self.loop_devices, which __init__ alone sets to []
ApiSetupLoopDevices ==
    /\ inst_calls < MaxCalls
    /\ inst_calls' = inst_calls + 1
    /\ \E ok \in BOOLEAN, n \in LoopNumbers :
         IF ok
         THEN /\ inst_devices' = inst_devices \o Reported(n)
              /\ inst_attach' = Reported(n)
              /\ inst_report' = Reported(n)
         ELSE UNCHANGED << inst_devices, inst_attach, inst_report >>
    /\ UNCHANGED << inst_mounts, inst_log >>
    /\ UNCHANGED << onevars, twovars, treevars >>

\* mount_partitions: the loop over zip(self.loop_devices,
\* self.mount_points); the first n mounts exit 0, the next one, if any is
\* left, fails and ends the loop.  /dev/mapper/<name> of a device that is
\* not of this image's attachment can exist all the same, as another
\* user's device.
ApiMountPartitions ==
    /\ inst_calls < MaxCalls
    /\ inst_calls' = inst_calls + 1
    /\ \E n \in 0..Min(Len(inst_devices), Len(mount_points)) :
         /\ inst_mounts' =
              [mp \in MountPoints |->
                 IF \E j \in 1..n : mount_points[j] = mp
                 THEN Append(inst_mounts[mp],
                             inst_devices[CHOOSE j \in 1..n : mount_points[j] = mp])
                 ELSE inst_mounts[mp]]
         /\ inst_log' = inst_log \o
              [j \in 1..n |->
                 [mount_point |-> mount_points[j],
                  device |-> inst_devices[j],
                  reported |-> IF j <= Len(inst_report)
                               THEN << inst_report[j] >> ELSE <<>>]]
    /\ UNCHANGED << inst_devices, inst_attach, inst_report >>
    /\ UNCHANGED << onevars, twovars, treevars >>

\* a device of the image's attachment is mounted somewhere
Busy(mounts) ==
    \E mp \in MountPoints : \E i \in 1..Len(mounts[mp]) :
        \E j \in 1..Len(inst_attach) : mounts[mp][i] = inst_attach[j]

\* one pass of cleanup's loop: umount of a mount point that is mounted
Unmounted(mounts, mp, ok) ==
    IF mounts[mp] # <<>> /\ ok
    THEN [mounts EXCEPT ![mp] = SubSeq(@, 1, Len(@) - 1)]
    ELSE mounts

\* cleanup: umount of the mount points that are mounted, in reverse order,
\* then kpartx -d; self.loop_devices is left as it is
ApiCleanup ==
    /\ inst_calls < MaxCalls
    /\ inst_calls' = inst_calls + 1
    /\ \E ok1, ok2, okd \in BOOLEAN :
         LET m1 == Unmounted(inst_mounts, CleanupOrder[1], ok1)
             m2 == Unmounted(m1, CleanupOrder[2], ok2)
         IN /\ okd => ~Busy(m2)
            /\ inst_mounts' = m2
            /\ inst_attach' = IF okd THEN <<>> ELSE inst_attach
    /\ UNCHANGED << inst_devices, inst_report, inst_log >>
    /\ UNCHANGED << onevars, twovars, treevars >>

NextInstance ==
    \/ ApiSetupLoopDevices
    \/ ApiMountPartitions
    \/ ApiCleanup

------------------------------------------------------------------------------
\* The customization steps as functions of the mounted root filesystem
\* (scripts/add_user.py, configure_hostname.py, update_upgrade_chroot.py,
\* install_citrascope.py).  Every action is one whole call of a step's
\* main on the tree as the calls before it left it.

InitTree ==
    /\ InitProcess
    /\ builds = [b \in Builds |-> NoBuild]
    /\ mtab = [mp \in MountPoints |-> <<>>]
    /\ dm = {}
    /\ undone = <<>>
    /\ steps = BUILD_STEPS
    /\ prog = "steps"
    /\ cleanup_mode = FALSE
    /\ pc = "idle"
    /\ \E t \in BaseTrees : tree_trace = << t >>

Tree == tree_trace[Len(tree_trace)]

\* add_user_to_supplementary_groups: every line of /etc/group that starts
\* with one of USER_GROUPS gets the user name appended to its members
WithMember(group, user) ==
    [i \in 1..Len(group) |->
        IF group[i].name \in USER_GROUPS
        THEN [group[i] EXCEPT !.members = Append(@, user)]
        ELSE group[i]]

\* add_user: a line appended to passwd, shadow and group, the user
\* appended to the supplementary groups, the home directory made and
\* filled from /etc/skel, the sudoers file written
add_user(t) ==
    [t EXCEPT !.passwd = Append(@, [name |-> USERNAME, uid |-> USER_UID]),
              !.shadow = Append(@, USERNAME),
              !.group = WithMember(Append(@, [name |-> USERNAME, members |-> <<>>]),
                                   USERNAME),
              !.home = TRUE,
              !.bashrc = << "skel" >>,
              !.files = @ \cup {"etc/sudoers.d/010_citra-nopasswd"}]

\* install_identity_system: files written anew, the wants link removed if
\* there and made again
install_identity_system(t) ==
    [t EXCEPT !.hostname = "citrascope",
              !.hosts = "citrascope",
              !.files = @ \cup {"etc/citrascope-prefix",
                                "usr/local/bin/generate-citrascope-identity",
                                "etc/systemd/system/citrascope-identity.service"},
              !.wants = (@ \ {"citrascope-identity.service"})
                        \cup {"citrascope-identity.service"}]

\* cp resolv.conf resolv.conf.bak if resolv.conf exists, then cp of the
\* host's resolv.conf over it; neither command's exit status is looked at
ResolvReplaced(t, cp_ok, host_ok) ==
    [t EXCEPT !.resolv_bak = IF t.resolv # "absent" /\ cp_ok THEN t.resolv ELSE @,
              !.resolv = IF host_ok THEN "host" ELSE @]

\* mv resolv.conf.bak resolv.conf if resolv.conf.bak exists; the exit
\* status is not looked at
ResolvRestored(t, mv_ok) ==
    IF t.resolv_bak # "absent" /\ mv_ok
    THEN [t EXCEPT !.resolv = t.resolv_bak, !.resolv_bak = "absent"]
    ELSE t

\* update_upgrade_chroot.main: policy-rc.d written, then update_system:
\* resolv.conf replaced, the apt-get commands in chroot inside
\* mount_context, and in the finally clause resolv.conf restored
update_system(t, chroot_ok, cp_ok, host_ok, mv_ok) ==
    LET t1 == [t EXCEPT !.files = @ \cup {"usr/sbin/policy-rc.d"}]
        t2 == ResolvReplaced(t1, cp_ok, host_ok)
        t3 == IF chroot_ok THEN [t2 EXCEPT !.files = @ \cup {"packages"}] ELSE t2
    IN ResolvRestored(t3, mv_ok)

\* What install_citrascope.main does up to the command that fails:
\* 1 is the first chroot (or bind) of the first mount_context, 2 the second
\* chroot of the first, 3 a command of the second mount_context, 0 none.
InstallFailurePoints == 0..3

\* install_citrascope.main: nothing without the home directory; else
\* resolv.conf replaced, pyenv installed, its lines appended to .bashrc,
\* Python and the venv installed, citrascope.service written and linked,
\* resolv.conf restored.  An exception on the way is caught by main's
\* except clause, which returns the failed result at once.
install_citrascope_main(t, fail, cp_ok, host_ok, mv_ok) ==
    LET t1 == ResolvReplaced(t, cp_ok, host_ok)
        t2 == [t1 EXCEPT !.files = @ \cup {".pyenv"},
                         !.bashrc = Append(@, "pyenv configuration")]
        t3 == [t2 EXCEPT !.files = @ \cup {".pyenv/versions/3.12"}]
        t4 == [t3 EXCEPT !.files = @ \cup {".citrascope_venv",
                                           "etc/systemd/system/citrascope.service"},
                         !.wants = @ \cup {"citrascope.service"}]
    IN CASE ~t.home -> t
         [] fail = 1 -> t1
         [] fail = 2 -> t2
         [] fail = 3 -> t3
         [] OTHER -> ResolvRestored(t4, mv_ok)

\* The step's main has returned: its report and the tree it left.
Applied(name, success, t) ==
    /\ tree_log' = Append(tree_log, [step |-> name, success |-> success])
    /\ tree_trace' = Append(tree_trace, t)

\* configure_hostname.main
TreeConfigureHostname ==
    /\ Len(tree_log) < MaxApplications
    /\ Applied("Configure hostname/identity", TRUE, install_identity_system(Tree))
    /\ UNCHANGED << onevars, twovars, apivars >>

\* add_user.main
TreeAddUser ==
    /\ Len(tree_log) < MaxApplications
    /\ Applied("Add user", TRUE, add_user(Tree))
    /\ UNCHANGED << onevars, twovars, apivars >>

\* update_upgrade_chroot.main; it has succeeded when no command of the
\* with block failed
TreeUpdatePackages ==
    /\ Len(tree_log) < MaxApplications
    /\ \E chroot_ok, cp_ok, host_ok, mv_ok \in BOOLEAN :
         Applied("Update packages", chroot_ok,
                 update_system(Tree, chroot_ok, cp_ok, host_ok, mv_ok))
    /\ UNCHANGED << onevars, twovars, apivars >>

\* install_citrascope.main
TreeInstallCitrascope ==
    /\ Len(tree_log) < MaxApplications
    /\ \E fail \in InstallFailurePoints, cp_ok, host_ok, mv_ok \in BOOLEAN :
         Applied("Install Citrascope", Tree.home /\ fail = 0,
                 install_citrascope_main(Tree, fail, cp_ok, host_ok, mv_ok))
    /\ UNCHANGED << onevars, twovars, apivars >>

NextTree ==
    \/ TreeConfigureHostname
    \/ TreeAddUser
    \/ TreeUpdatePackages
    \/ TreeInstallCitrascope

------------------------------------------------------------------------------

NextBuild ==
    \/ MainStart
    \/ ExpandParted
    \/ ExpandKpartx
    \/ ExpandE2fsck
    \/ ExpandResize2fs
    \/ ExpandDetach
    \/ StepEntersContext
    \/ McMount
    \/ McRslave
    \/ McBody
    \/ McUmount
    \/ RunStep
    \/ BuildFinish
    \/ RunBuildWait

NextMounter ==
    \/ SetupLoopDevices
    \/ MakeMountPoints
    \/ MountPartitions
    \/ CleanupUmount
    \/ CleanupDetach
    \/ Interrupt

NextResizeFs ==
    \/ RfSetup
    \/ RfE2fsck
    \/ RfResize2fs
    \/ RfCleanup

Next ==
    \/ NextBuild
    \/ NextMounter
    \/ MountImgFinish
    \/ MountImgCleanupRun
    \/ NextResizeFs

\* build_image.py over BUILD_STEPS, and the mount_img command line
Spec == Init /\ [][Next]_vars

\* build_image.py over any suffix of BUILD_STEPS
SpecHarness == InitHarness /\ [][NextBuild \/ NextMounter]_vars

\* two builds at once on one host
SpecTwoBuilds == InitTwoBuilds /\ [][NextTwoBuilds]_vars

\* one ImageMounter instance, its methods called in any order
SpecInstance == InitInstance /\ [][NextInstance]_vars

\* customization steps applied to one mounted tree
SpecTree == InitTree /\ [][NextTree]_vars

------------------------------------------------------------------------------
\* Properties

Issued(c, target, ok) ==
    \E i \in 1..Len(issued) : issued[i] = Cmd(c, target, ok)

IssuedAny(c) == \E i \in 1..Len(issued) : issued[i].cmd = c

\* ImageMounter's own kpartx -av exited 0
MounterAttached == Issued("kpartx -av", "image", TRUE)

HostClean == ~AnyMounted /\ ~attached

\* a release command (umount, kpartx -d) exited non-zero
ReleaseFailed == faults \cap {"umount", "detach", "expand_detach"} # {}

Interrupted == "interrupt" \in faults

StepFailed == failed_at # 0 /\ faults \cap {"step_raise", "step_false"} # {}

StepEntries == SubSeq(BUILD_RESULTS, 2, Len(BUILD_RESULTS))

\* C3: exactly one StepResult for every step run_step has started, in
\* execution order, whether the step returned success or failure, raised or
\* called sys.exit.
C3_OneResultPerStartedStep ==
    (prog = "build_image" /\ ~Interrupted)
    => [i \in 1..Len(StepEntries) |-> StepEntries[i].name] = invoked

\* C4: when the attach tool exits non-zero or reports fewer than 2
\* partitions, __enter__ signals the error: no mount command is issued and
\* no step runs.
C4_AttachErrorStopsAcquire ==
    (prog = "build_image" /\ setup_ok = "false")
    => /\ ~IssuedAny("mount")
       /\ pc # "run_step"
       /\ invoked = <<>>

\* C5: kpartx -d is issued by cleanup only in a state where neither mount
\* point is still mounted (cleanup issues it whenever control is at that
\* line).
C5_NoDetachWhileMounted ==
    pc = "cleanup_detach" => ~AnyMounted

\* C6: after the boot mount succeeded and the root mount failed, the caller
\* never goes on with the boot mount point still mounted: not the with body
\* after __enter__, and not mount_img's command line when it exits.
C6_NoPartialMount ==
    /\ (prog = "build_image" /\ pc = "run_step" /\ mount_ok = "false")
       => ~IsMount(BOOT_MOUNT)
    /\ (prog = "mount_img" /\ pc = "exited" /\ mount_ok = "false"
        /\ ~ReleaseFailed)
       => ~IsMount(BOOT_MOUNT)

\* C7: a step is invoked only with the boot partition mounted at the boot
\* mount point and the root partition at the root mount point.
C7_StepsRunMounted ==
    (prog = "build_image" /\ pc = "run_step")
    => /\ mounted[BOOT_MOUNT] = 1
       /\ mounted[ROOTFS_MOUNT] = 2

IsResultObject(v) ==
    v.type \in {"build_image.BuildResult", "build_result.BuildResult"}

\* C8: run_step maps a returned boolean b to (b, {}) and a returned result
\* object (success=s, data=d) to (s, d), the Install Citrascope result
\* included: its success is what BUILD_RESULTS records and its version
\* reaches customize_image's metadata.
C8_Normalisation ==
    (prog = "build_image" /\ invoked # <<>> /\ last_call.value # PyNone)
    => /\ last_call.value.type = "bool"
          => last_call.norm = [success |-> last_call.value.success, data |-> NoData]
       /\ IsResultObject(last_call.value)
          => /\ last_call.norm = [success |-> last_call.value.success,
                                  data |-> last_call.value.data]
             /\ "version" \in Keys(last_call.value.data)
                => <<"citrascope_version", Lookup(last_call.value.data, "version")>>
                      \in metadata

\* C9: an interrupt after an attach succeeded still runs the release path:
\* when the process has ended, nothing is mounted and the image is not
\* attached (runs in which a release command itself fails are left out).
C9_InterruptCleanup ==
    (pc = "exited" /\ Interrupted /\ ~ReleaseFailed) => HostClean

Position(c, target) ==
    { i \in 1..Len(issued) : issued[i].cmd = c /\ issued[i].target = target }

\* C10: the boot mount point is mounted strictly before the root mount
\* point, and in cleanup the root mount point is unmounted strictly before
\* the boot mount point.
C10_MountOrder ==
    /\ \A r \in Position("mount", ROOTFS_MOUNT) :
         \E b \in Position("mount", BOOT_MOUNT) : b < r /\ issued[b].ok
    /\ \A r \in Position("umount", ROOTFS_MOUNT) :
         \A b \in Position("umount", BOOT_MOUNT) : r < b
    /\ (IsMount(ROOTFS_MOUNT) /\ pc \in {"mount_partitions", "run_step"})
         => IsMount(BOOT_MOUNT)

C10_Witness ==
    /\ mount_ok = "true"
    /\ issued = << Cmd("kpartx -av", "image", TRUE),
                   Cmd("mount", BOOT_MOUNT, TRUE),
                   Cmd("mount", ROOTFS_MOUNT, TRUE),
                   Cmd("umount", ROOTFS_MOUNT, TRUE),
                   Cmd("umount", BOOT_MOUNT, TRUE) >>
    /\ ~AnyMounted

CleanupPcs == {"cleanup_umount", "cleanup_detach", "rf_cleanup"}

\* C11: release idempotence.  Every step of ImageMounter.cleanup and of
\* DeviceManager.cleanup that is taken with nothing mounted and the image
\* not attached leaves the mount table and the attachment as they are,
\* issues no umount command and goes on to the next line of cleanup or to
\* the normal end of the call (nothing is raised).
C11_ReleaseIdempotent ==
    [][ (pc \in CleanupPcs /\ mounted = NoneMounted /\ ~attached)
        => /\ mounted' = mounted
           /\ attached' = attached
           /\ ~(Len(issued') = Len(issued) + 1 /\ issued'[Len(issued')].cmd = "umount")
           /\ pc' \in CleanupPcs \cup {"after_cleanup", "exited"}
           /\ pending' = pending ]_vars

\* mount_img --cleanup run after a first run that had already cleaned up:
\* the second cleanup issued kpartx -d only, and the host is as it was.
C11_Witness ==
    /\ prog = "mount_img"
    /\ cleanup_mode
    /\ cleanups = 2
    /\ pc = "exited"
    /\ exit_status = "0"
    /\ issued = << Cmd("kpartx -d", "image", FALSE) >>
    /\ mounted = NoneMounted
    /\ ~attached

\* every step of the step list has a result, and every result is a success
StepsAllSucceeded ==
    /\ Len(StepEntries) = Len(steps)
    /\ \A i \in 1..Len(StepEntries) : StepEntries[i] = StepResult(steps[i], TRUE)

Printed(what) == \E i \in 1..Len(console) : console[i].what = what

\* C12: non-fatal expansion.  After a command of the expand phase failed
\* (parted, kpartx -av, resize2fs) the phase is left with a failed Expand
\* image result, ImageMounter attaches and the steps are run; when the
\* build has ended, its exit status is 0 and BUILD COMPLETE is printed
\* exactly when every step has a successful result.
C12_ExpandNonFatal ==
    (prog = "build_image" /\ "expand" \in faults /\ ~Interrupted)
    => /\ pc \notin ExpandPcs \cup {"main"}
       /\ BUILD_RESULTS[1] = StepResult("Expand image", FALSE)
       /\ pc = "exited"
          => /\ IssuedAny("kpartx -av")
             /\ invoked # <<>>
             /\ exit_status = "0" <=> StepsAllSucceeded
             /\ Printed("BUILD COMPLETE") <=> StepsAllSucceeded

C12_Witness ==
    /\ prog = "build_image"
    /\ pc = "exited"
    /\ faults = {"expand"}
    /\ BUILD_RESULTS[1] = StepResult("Expand image", FALSE)
    /\ Len(steps) = 3
    /\ StepsAllSucceeded
    /\ exit_status = "0"
    /\ Printed("BUILD COMPLETE")

\* C13: expand releases what it attaches.  When the expand phase has ended
\* and ImageMounter is about to attach the image, no attachment made by the
\* expand phase is still in place (runs in which the phase did execute
\* kpartx -d and the command exited non-zero are left out).
C13_ExpandDetaches ==
    (prog = "build_image" /\ pc = "setup_loop_devices"
     /\ "expand_detach" \notin faults)
    => ~attached

Bind(c, target, ok) ==
    \E i \in 1..Len(bind_log) : bind_log[i] = Cmd(c, target, ok)

SetupCommands == {"mount -t proc", "mount --rbind", "mount --make-rslave"}

\* a command of mount_context's setup loop exited non-zero
SetupFailed ==
    \E i \in 1..Len(bind_log) :
        bind_log[i].cmd \in SetupCommands /\ ~bind_log[i].ok

\* the step's mount_context call has been left
ContextLeft == pc = "run_step" /\ mc_round > 0

\* C14: bind setup failure unwinds.  When mount_context has been left after
\* a mount or a make-rslave of its setup loop failed, the error is on its
\* way to the caller and none of proc, sys, dev, run under the root mount
\* point is still bound (runs in which an unbind command failed are left
\* out).
C14_SetupFailureUnwinds ==
    (ContextLeft /\ SetupFailed /\ "unbind" \notin faults)
    => /\ mc_err = "CalledProcessError"
       /\ \A n \in BindNames : bound[n] = 0

\* C15: bind nesting.  In every state of a build, none of proc, sys, dev,
\* run under the root mount point is bound unless the root mount point is
\* mounted.
C15_BindNesting ==
    (prog = "build_image" /\ ~IsMount(ROOTFS_MOUNT)) => \A n \in BindNames : bound[n] = 0

IsUnbind(c) == c.cmd = "umount -R"

SetupLog == SelectSeq(bind_log, LAMBDA c : c.cmd \in SetupCommands)

UnbindLog == SelectSeq(bind_log, IsUnbind)

\* the setup commands of one mount_context call, in the order claimed
FixedSetupOrder ==
    << <<"mount -t proc", "proc">>,
       <<"mount --rbind", "sys">>, <<"mount --make-rslave", "sys">>,
       <<"mount --rbind", "dev">>, <<"mount --make-rslave", "dev">>,
       <<"mount --rbind", "run">>, <<"mount --make-rslave", "run">> >>

\* the bind of n completed: its mount and, for a recursive bind, its
\* make-rslave exited 0
BindCompleted(n) ==
    IF n = "proc" THEN Bind("mount -t proc", n, TRUE)
    ELSE Bind("mount --rbind", n, TRUE) /\ Bind("mount --make-rslave", n, TRUE)

CompletedBinds == SelectSeq(<<"proc", "sys", "dev", "run">>, BindCompleted)

\* C16: bind order.  The setup commands of a mount_context call are a
\* prefix of: mount -t proc (proc), then for sys, dev, run in this order
\* mount --rbind followed at once by mount --make-rslave; only the last
\* command issued can have failed.  The umount -R commands come after all
\* other commands of the call and go through the completed binds in
\* reverse order, all of them by the time the call is left.
C16_BindOrder ==
    (prog = "build_image" /\ mc_round > 0)
    => /\ Len(SetupLog) <= Len(FixedSetupOrder)
       /\ \A i \in 1..Len(SetupLog) :
            /\ << SetupLog[i].cmd, SetupLog[i].target >> = FixedSetupOrder[i]
            /\ i < Len(SetupLog) => SetupLog[i].ok
       /\ \A i, j \in 1..Len(bind_log) :
            (i < j /\ IsUnbind(bind_log[i])) => IsUnbind(bind_log[j])
       /\ Len(UnbindLog) <= Len(CompletedBinds)
       /\ \A i \in 1..Len(UnbindLog) :
            UnbindLog[i].target = Reverse(CompletedBinds)[i]
       /\ ContextLeft => Len(UnbindLog) = Len(CompletedBinds)

C16_Witness ==
    /\ ContextLeft
    /\ steps[k] = "Update packages"
    /\ bind_log = << Cmd("mount -t proc", "proc", TRUE),
                     Cmd("mount --rbind", "sys", TRUE),
                     Cmd("mount --make-rslave", "sys", TRUE),
                     Cmd("mount --rbind", "dev", TRUE),
                     Cmd("mount --make-rslave", "dev", TRUE),
                     Cmd("mount --rbind", "run", TRUE),
                     Cmd("mount --make-rslave", "run", TRUE),
                     Cmd("chroot", ROOTFS_MOUNT, TRUE),
                     Cmd("umount -R", "run", TRUE),
                     Cmd("umount -R", "dev", TRUE),
                     Cmd("umount -R", "sys", TRUE),
                     Cmd("umount -R", "proc", TRUE) >>

\* C17: independent unbind attempts.  When a mount_context call has been
\* left, an umount -R was issued for every completed bind, whatever the
\* other unbinds did; every failed unbind was reported by a warning; and
\* the exception on its way to the caller is the one of the setup loop or
\* of the with body, if any: a failed unbind neither raises nor replaces it.
C17_IndependentUnbinds ==
    ContextLeft
    => /\ \A n \in BindNames :
            BindCompleted(n)
            => \E i \in 1..Len(bind_log) :
                  IsUnbind(bind_log[i]) /\ bind_log[i].target = n
       /\ \A n \in BindNames : Bind("umount -R", n, FALSE) => n \in ctx_warned
       /\ mc_err = IF SetupFailed \/ Bind("chroot", ROOTFS_MOUNT, FALSE)
                   THEN "CalledProcessError" ELSE "none"

Summaries == { i \in 1..Len(console) : console[i].what = "BUILD SUMMARY" }

\* one summary was printed, as the last thing, with a row for every entry
\* of BUILD_RESULTS as it is at the end; the step entries are in the order
\* of the step list and all but a failed last one are successes
SummaryPrintedOnce ==
    /\ Cardinality(Summaries) = 1
    /\ console[Len(console)] = [what |-> "BUILD SUMMARY", rows |-> BUILD_RESULTS]
    /\ \A i \in 1..Len(StepEntries) :
         /\ StepEntries[i].name = steps[i]
         /\ StepEntries[i].success \/ (i = Len(StepEntries) /\ StepFailed)

\* build_image.py has ended by a success, a step failure or an exception
\* that reached main's except Exception clause
CompletedOrFailed ==
    /\ prog = "build_image"
    /\ pc = "exited"
    /\ \/ exit_status = "0"
       \/ faults \cap {"step_false", "step_raise", "step_exit"} # {}
       \/ pending = "Exception"

\* C20, as stated: on every end of build_image.py that is a success, a
\* step failure or an unexpected exception, the summary is printed exactly
\* once, after the last step, with every recorded result in order.
C20_SummaryAlways == CompletedOrFailed => SummaryPrintedOnce

\* C20, amended: the same on every such end at which at least one result
\* has been recorded; when nothing has been recorded (an exception before
\* the expand phase) no summary is printed.
C20_SummaryOnCompletion ==
    /\ (CompletedOrFailed /\ BUILD_RESULTS # <<>>) => SummaryPrintedOnce
    /\ (CompletedOrFailed /\ BUILD_RESULTS = <<>>) => Summaries = {}

C20_Witness ==
    /\ prog = "build_image"
    /\ pc = "exited"
    /\ exit_status = "1"
    /\ "step_raise" \in faults
    /\ failed_at = 2
    /\ console = << [what |-> "BUILD SUMMARY",
                     rows |-> << StepResult("Expand image", TRUE),
                                 StepResult(steps[1], TRUE),
                                 StepResult(steps[2], FALSE) >>] >>

\* C19: one MountSet per host.  With two builds running customize_image on
\* one host, the two builds never both have partitions mounted at the
\* mount points, and every mount a build's cleanup has unmounted was made
\* by that build.
C19_OneMountSetPerHost ==
    /\ ~(Holds(1) /\ Holds(2))
    /\ \A i \in 1..Len(undone) : undone[i].by = undone[i].owner

\* every step of the step list was invoked and recorded as succeeded
PipelineSucceeded == invoked = steps /\ StepsAllSucceeded

C24_E2fsckFailureStopsResize ==
    "e2fsck" \in faults
    => /\ pc \notin {"expand_resize2fs", "rf_resize2fs"}
       /\ prog = "resize_fs" => rf_ok = "false"
       /\ (prog = "build_image" /\ BUILD_RESULTS # <<>>)
          => BUILD_RESULTS[1] = StepResult("Expand image", FALSE)

\* C26: cleanup never fails the build nor hides a failure.  Whatever the
\* exit codes of umount and kpartx -d, cleanup goes through both mount
\* points and the detach and returns: after a failed umount of the root
\* mount point the boot mount point, if mounted, has its umount, and kpartx
\* -d is issued.  The exception the with body was left with is the one the
\* process ends with: exit status 1 after a step failure, 0 only when
\* nothing was raised.
C26_CleanupNeverFailsNorHides ==
    (prog = "build_image" /\ pc \in {"after_cleanup", "exited"} /\ cleanups > 0)
    => /\ IssuedAny("kpartx -d")
       /\ \A mp \in MountPoints : IsMount(mp) => Issued("umount", mp, FALSE)
       /\ pc = "exited"
          => /\ pending = "SystemExit" <=> exit_status = "1"
             /\ pending = "none" <=> exit_status = "0"
             /\ pending = "KeyboardInterrupt" <=> exit_status = "SIGINT"
             /\ (StepFailed \/ "step_exit" \in faults) => exit_status = "1"

\* a step failed, the umount of the root mount point failed, the boot
\* mount point was unmounted all the same, and the process ended with 1
C26_Witness ==
    /\ prog = "build_image"
    /\ pc = "exited"
    /\ StepFailed
    /\ Issued("umount", ROOTFS_MOUNT, FALSE)
    /\ Issued("umount", BOOT_MOUNT, TRUE)
    /\ Issued("kpartx -d", "image", FALSE)
    /\ exit_status = "1"

\* C27: loop_device_context detaches on every exit path.  When resize_fs.py
\* has ended, DeviceManager.cleanup has run exactly once, with one kpartx
\* -d after every other command, whether the attach failed or reported
\* fewer than 2 partitions (RuntimeError), a check or resize command failed
\* or the body returned True; a failing kpartx -d changes neither the
\* result nor the exception.
C27_DetachOnEveryPath ==
    (prog = "resize_fs" /\ pc = "exited")
    => /\ cleanups = 1
       /\ issued[Len(issued)].cmd = "kpartx -d"
       /\ \A i \in 1..(Len(issued) - 1) : issued[i].cmd # "kpartx -d"
       /\ pending = "RuntimeError" <=> rf_ok = "unset"
       /\ pending \in {"none", "RuntimeError"}
       /\ rf_ok = "false" <=> faults \cap {"e2fsck", "resize2fs"} # {}
       /\ exit_status = "0" <=> rf_ok = "true"

\* the attach reported fewer than 2 partitions, RuntimeError is on its way
\* to the caller, and the detach was run, and failed
C27_Witness ==
    /\ prog = "resize_fs"
    /\ pc = "exited"
    /\ pending = "RuntimeError"
    /\ issued = << Cmd("kpartx -av", "image", TRUE), Cmd("kpartx -d", "image", FALSE) >>
    /\ cleanups = 1

\* C28: if no step meets an error (no exception, no failing command, no
\* failure reported), no step is recorded as failed, and when the build
\* has ended all steps of the list were run in order and recorded as
\* succeeded and BUILD COMPLETE was printed.
C28_PipelineCompletes ==
    (prog = "build_image" /\ faults \subseteq {"step_false"})
    => /\ "step_false" \notin faults
       /\ pc = "exited"
          => /\ PipelineSucceeded
             /\ Printed("BUILD COMPLETE")
             /\ exit_status = "0"

C21_IdempotentSteps ==
    \A i \in 1..(Len(tree_log) - 1) :
        (tree_log[i].step = tree_log[i + 1].step
         /\ tree_log[i].success /\ tree_log[i + 1].success)
        => tree_trace[i + 2] = tree_trace[i + 1]

\* C25: every chroot invocation by a step happens while proc, sys, dev and
\* run are all bound under the root mount point.
C25_ChrootInsideBinds == \A c \in chroots : c.binds

\* C29: resolv.conf is restored.  After every application of Update
\* packages and of Install Citrascope, succeeded or failed, resolv.conf is
\* what it was before the step and there is no resolv.conf.bak.
C29_ResolvConfRestored ==
    \A i \in 1..Len(tree_log) :
        tree_log[i].step \in {"Update packages", "Install Citrascope"}
        => /\ tree_trace[i + 1].resolv = tree_trace[i].resolv
           /\ tree_trace[i + 1].resolv_bak = "absent"

\* C30: an ImageMounter instance mounts only devices of its current
\* attachment.  Over any sequence of setup_loop_devices, mount_partitions
\* and cleanup calls on one instance, every mount made at the i-th mount
\* point was of the i-th device the most recent attach reported, and every
\* identifier in loop_devices is of the attachment now in place.
C30_MountsCurrentAttachment ==
    /\ \A i \in 1..Len(inst_log) :
         inst_log[i].reported = << inst_log[i].device >>
    /\ \A i \in 1..Len(inst_devices) :
         \E j \in 1..Len(inst_attach) : inst_devices[i] = inst_attach[j]

====
